---- MODULE Spec2Model ----
(***************************************************************************)
(* Model of src/main.go: an HTTP service with three handlers (/start,     *)
(* /stop, /check) in front of a cloud provider's SQL-admin API.  Each      *)
(* request is handled by its own goroutine; a handler is a straight-line   *)
(* sequence of provider calls (NewService, Instances.Get, Instances.Patch) *)
(* and local checks, and it writes a response envelope with                *)
(* writeSuccessResponse or writeErrorResponse.  The provider is external:  *)
(* the outcome of each call is a nondeterministic choice, and the only     *)
(* state shared between requests is the instance held by the provider.     *)
(*                                                                         *)
(* The envelope's "timestamp" (time.Now()) is left out of the modelled     *)
(* response: no claim reads it and no handler branches on it.              *)
(***************************************************************************)
EXTENDS Integers, Sequences, FiniteSets, TLC

(* Number of requests the server handles, all possibly concurrently. *)
NumRequests == 2

Requests == 1..NumRequests

VARIABLES
    instState,        \* provider: DatabaseInstance.State of the managed instance
    instPolicy,       \* provider: DatabaseInstance.Settings.ActivationPolicy
    pc,               \* per request: position of its handler
    endpoint,         \* per request: the path it was routed to
    method,           \* per request: r.Method
    status,           \* per request: local `status` of stopInstancesHandler
    body,             \* per request: what reading r.Body gave
    activationPolicy, \* per request: local `activationPolicy`
    calls,            \* per request: the provider calls it made, in order
    responses,        \* per request: the envelopes written to its ResponseWriter
    fmtCause,         \* formatter harness: the `err` argument
    fmtCode,          \* formatter harness: the `statusCode` argument
    fmtMessage,       \* formatter harness: the `message` argument
    fmtOut            \* formatter harness: the envelope written

vars == <<instState, instPolicy, pc, endpoint, method, status, body,
          activationPolicy, calls, responses, fmtCause, fmtCode, fmtMessage, fmtOut>>

reqVars == <<pc, endpoint, method, status, body, activationPolicy, calls, responses>>
provVars == <<instState, instPolicy>>
fmtVars == <<fmtCause, fmtCode, fmtMessage, fmtOut>>

-----------------------------------------------------------------------------
(* Inputs *)

Endpoints == {"/start", "/stop", "/check"}
Methods == {"GET", "POST", "DELETE"}
InstanceStates == {"RUNNABLE", "STOPPED", "MAINTENANCE", "FAILED"}
Policies == {"ALWAYS", "NEVER"}

(* Status codes with which the provider rejects a call. *)
ProviderCodes == {403, 404}

-----------------------------------------------------------------------------
(* Values of Go's `interface{}` / `error` that reach writeErrorResponse.    *)
(* kind is the dynamic type: "googleapi" = *googleapi.Error, "error" = any  *)
(* other error, "string", "nil" = the nil interface, "int" = an integer.    *)

NilValue == [kind |-> "nil", Code |-> 0, Message |-> ""]
GoogleapiError(code, msg) == [kind |-> "googleapi", Code |-> code, Message |-> msg]
PlainError(msg) == [kind |-> "error", Code |-> 0, Message |-> msg]
StringValue(s) == [kind |-> "string", Code |-> 0, Message |-> s]
IntValue(n) == [kind |-> "int", Code |-> n, Message |-> ""]

Digit(d) ==
    CASE d = 0 -> "0" [] d = 1 -> "1" [] d = 2 -> "2" [] d = 3 -> "3"
      [] d = 4 -> "4" [] d = 5 -> "5" [] d = 6 -> "6" [] d = 7 -> "7"
      [] d = 8 -> "8" [] d = 9 -> "9"

RECURSIVE NatToString(_)
NatToString(n) == IF n < 10 THEN Digit(n) ELSE NatToString(n \div 10) \o Digit(n % 10)

(* fmt's %d verb. *)
FormatInt(n) == IF n < 0 THEN "-" \o NatToString(-n) ELSE NatToString(n)

(* err.Error() *)
ErrorText(e) ==
    IF e.kind = "googleapi"
    THEN "googleapi: Error " \o FormatInt(e.Code) \o ": " \o e.Message
    ELSE e.Message

(* fmt.Errorf(prefix + ": %w", err): a new error wrapping err. *)
Errorf(prefix, e) == PlainError(prefix \o ": " \o ErrorText(e))

(* fmt's %v verb on the values of the default branch. *)
FormatValue(e) ==
    CASE e.kind = "nil" -> "<nil>"
      [] e.kind = "int" -> FormatInt(e.Code)
      [] OTHER -> ErrorText(e)

(* http.StatusText *)
StatusText(code) ==
    CASE code = 200 -> "OK"
      [] code = 400 -> "Bad Request"
      [] code = 401 -> "Unauthorized"
      [] code = 405 -> "Method Not Allowed"
      [] code = 500 -> "Internal Server Error"
      [] OTHER -> ""

NoData == [none |-> TRUE]

ErrorTypeStringsUnknown(err) ==
    CASE err.kind = "googleapi" -> "googleapi_" \o FormatInt(err.Code)
      [] err.kind = "error" -> "internal_error"
      [] OTHER -> "unknown_error"

(* The errorType of writeErrorResponse's type switch. *)
ErrorTypeOf(err) ==
    CASE err.kind = "googleapi" -> "googleapi_" \o FormatInt(err.Code)
      [] err.kind = "error" -> "internal_error"
      [] err.kind = "string" -> "internal_error"
      [] OTHER -> "unknown_error"

(* The errorDescription of writeErrorResponse's type switch. *)
ErrorDescriptionOf(err) ==
    CASE err.kind = "googleapi" -> err.Message
      [] err.kind = "error" -> ErrorText(err)
      [] err.kind = "string" -> err.Message
      [] OTHER -> FormatValue(err)

writeErrorResponse(statusCode, message, err) ==
    [envelope |-> "error",
     status_code |-> statusCode,
     status_text |-> StatusText(statusCode),
     message |-> message,
     error_type |-> ErrorTypeOf(err),
     error_description |-> ErrorDescriptionOf(err),
     data |-> NoData]

writeSuccessResponse(statusCode, message, data) ==
    [envelope |-> "success",
     status_code |-> statusCode,
     status_text |-> StatusText(statusCode),
     message |-> message,
     error_type |-> "",
     error_description |-> "",
     data |-> data]

-----------------------------------------------------------------------------
(* Request bodies.  r.Body is a stream: the handler learns what the client  *)
(* sent only when io.ReadAll reads it, so the body is an input of that step. *)
(* A JSON value is tagged with its JSON type, as json.Unmarshal into        *)
(* map[string]interface{} gives string, float64 or bool.                    *)

JsonString(s) == [t |-> "string", s |-> s, n |-> 0, b |-> FALSE]
JsonNumber(n) == [t |-> "number", s |-> "", n |-> n, b |-> FALSE]
JsonBool(b) == [t |-> "bool", s |-> "", n |-> 0, b |-> b]

JsonValues ==
    {JsonString("ALWAYS"), JsonString("NEVER"), JsonString("always"),
     JsonString("ONDEMAND"), JsonNumber(1), JsonBool(TRUE)}

EmptyObject == [k \in {} |-> JsonNumber(0)]

(* JSON objects with at most the key the handlers look at. *)
JsonObjects == {EmptyObject} \cup {[k \in {"ActivationPolicy"} |-> v] : v \in JsonValues}

NotRead == [kind |-> "notread", payload |-> EmptyObject]
ReadFailure == [kind |-> "readerr", payload |-> EmptyObject]
NotJson == [kind |-> "notjson", payload |-> EmptyObject]
JsonBody(obj) == [kind |-> "object", payload |-> obj]

Bodies == {ReadFailure, NotJson} \cup {JsonBody(o) : o \in JsonObjects}

(* payload["ActivationPolicy"].(string): the value and ok. *)
PolicyAssertion(payload) ==
    IF "ActivationPolicy" \in DOMAIN payload /\ payload["ActivationPolicy"].t = "string"
    THEN [value |-> payload["ActivationPolicy"].s, ok |-> TRUE]
    ELSE [value |-> "", ok |-> FALSE]

AcceptsLowercasePolicy(payload) ==
    LET a == PolicyAssertion(payload)
    IN  a.ok /\ a.value \in {"ALWAYS", "NEVER", "always", "never"}

(* The negation of the guard at lines 111 and 168. *)
PolicyAccepted(payload) ==
    LET a == PolicyAssertion(payload)
    IN  ~(~a.ok \/ (a.value # "ALWAYS" /\ a.value # "NEVER"))

-----------------------------------------------------------------------------
(* The provider, as the handlers see it. *)

Nil == [nil |-> TRUE]

(* The DatabaseInstance that Instances.Get returns. *)
ProviderInstance(withSettings) ==
    [Name |-> "db-main",
     DatabaseVersion |-> "POSTGRES_15",
     Region |-> "asia-southeast2",
     State |-> instState,
     Settings |-> IF withSettings
                  THEN [Tier |-> "db-f1-micro", ActivationPolicy |-> instPolicy]
                  ELSE Nil]

ProviderMessage(code) ==
    CASE code = 403 -> "The client is not authorized to make this request."
      [] code = 404 -> "The Cloud SQL instance does not exist."
      [] OTHER -> "Request failed."

TransportError == PlainError("Get: dial tcp: i/o timeout")
CredentialsError == PlainError("cannot read credentials file service_account.json")

(* What sqladmin.NewService can return as err. *)
AuthResults == {NilValue, CredentialsError}

(* What a provider call's Do() can return as err. *)
CallErrors ==
    {NilValue, TransportError} \cup {GoogleapiError(c, ProviderMessage(c)) : c \in ProviderCodes}

(* What Instances.Get(...).Do() can return. *)
GetResults ==
    {[err |-> e, withSettings |-> TRUE] : e \in CallErrors}
        \cup {[err |-> NilValue, withSettings |-> FALSE]}

(* The Operation that a successful Instances.Patch returns. *)
PatchOperation(policy) ==
    [Kind |-> "sql#operation", OperationType |-> "UPDATE", Status |-> "PENDING",
     TargetId |-> "db-main"]

Call(op, policy, err) == [op |-> op, policy |-> policy, err |-> err]

-----------------------------------------------------------------------------
(* checkStatusInstances: authenticates, reads the instance and projects it. *)
(* The result is what the caller gets: (data, err), or a panic when         *)
(* instance.Settings is nil at `instance.Settings.Tier`.                    *)

NoStatus == [Name |-> "", DatabaseVersion |-> "", Region |-> "", State |-> "", Tier |-> ""]

checkStatusInstances(auth, get) ==
    IF auth # NilValue
    THEN [panic |-> FALSE, data |-> NoStatus,
          err |-> Errorf("failed to find Service Account", auth),
          calls |-> <<Call("NewService", "", auth)>>]
    ELSE IF get.err # NilValue
    THEN [panic |-> FALSE, data |-> NoStatus,
          err |-> Errorf("failed to get instance details, instances not found.", get.err),
          calls |-> <<Call("NewService", "", auth), Call("Get", "", get.err)>>]
    ELSE LET instance == ProviderInstance(get.withSettings)
         IN  IF instance.Settings = Nil
             THEN [panic |-> TRUE, data |-> NoStatus, err |-> NilValue,
                   calls |-> <<Call("NewService", "", auth), Call("Get", "", get.err)>>]
             ELSE [panic |-> FALSE,
                   data |-> [Name |-> instance.Name,
                             DatabaseVersion |-> instance.DatabaseVersion,
                             Region |-> instance.Region,
                             State |-> instance.State,
                             Tier |-> instance.Settings.Tier],
                   err |-> NilValue,
                   calls |-> <<Call("NewService", "", auth), Call("Get", "", get.err)>>]

-----------------------------------------------------------------------------
(* The handlers' decisions. *)

AnyKnownMethodAllowed(ep, m) == m \in {"GET", "POST"}

(* r.Method against the one method each handler serves. *)
MethodAllowed(ep, m) == IF ep = "/check" THEN m = "GET" ELSE m = "POST"

AuthErrorIgnored(err) == FALSE

(* `if err != nil` after sqladmin.NewService in a handler. *)
AuthFailed(err) == err # NilValue

RejectsOnlyStopped(state) == state = "STOPPED"

RejectsNothing(state) == FALSE

(* stopInstancesHandler's precondition on the fetched state. *)
StopRejectsState(state) == state # "RUNNABLE"

StartRejectsLikeStop(state) == state # "RUNNABLE"

(* startInstanceHandler discards the fetched status: no state is rejected. *)
StartRejectsState(state) == FALSE

PolicyOfEndpoint(ep, policy) == IF ep = "/stop" THEN "NEVER" ELSE "ALWAYS"

(* Settings.ActivationPolicy of the DatabaseInstance sent with Patch. *)
PatchPolicy(ep, policy) == policy

StateMessage(state) == "Instance currently in " \o state \o " state."

InvalidPolicyMessage == "Invalid value for ActivationPolicy. Must be 'ALWAYS' or 'NEVER'."

PatchFailedMessage(ep) ==
    IF ep = "/start" THEN "Failed to start instance." ELSE "Failed to stop instance."

PatchSucceededMessage(ep) ==
    IF ep = "/start"
    THEN "Instance successfully started. Check console for details."
    ELSE "Instance successfully stopped. Check console for details."

-----------------------------------------------------------------------------
(* Steps of a handler.  Respond writes the envelope and returns. *)

Respond(r, envelope) ==
    /\ responses' = [responses EXCEPT ![r] = Append(@, envelope)]
    /\ pc' = [pc EXCEPT ![r] = "done"]

Proceed(r, next) ==
    /\ pc' = [pc EXCEPT ![r] = next]
    /\ UNCHANGED responses

(* A request arrives and its handler runs its method check.  Requests are   *)
(* numbered in their order of arrival.                                      *)
Receive(r) ==
    /\ pc[r] = "idle"
    /\ \A q \in Requests : q < r => pc[q] # "idle"
    /\ \E ep \in Endpoints, m \in Methods :
        /\ endpoint' = [endpoint EXCEPT ![r] = ep]
        /\ method' = [method EXCEPT ![r] = m]
        /\ IF ~MethodAllowed(ep, m)
           THEN Respond(r, writeErrorResponse(405, "Method not allowed.", StringValue("")))
           ELSE Proceed(r, "auth")
    /\ UNCHANGED <<status, body, activationPolicy, calls, provVars, fmtVars>>

(* sqladmin.NewService in the handler. *)
Authenticate(r) ==
    /\ pc[r] = "auth"
    /\ \E err \in AuthResults :
        /\ calls' = [calls EXCEPT ![r] = Append(@, Call("NewService", "", err))]
        /\ IF AuthFailed(err)
           THEN Respond(r, writeErrorResponse(401, "Service Account not found.", err))
           ELSE Proceed(r, "status")
    /\ UNCHANGED <<endpoint, method, status, body, activationPolicy, provVars, fmtVars>>

(* The call of checkStatusInstances and what the handler does with its      *)
(* result, up to the next read of the request or call of the provider.      *)
ReadStatus(r) ==
    /\ pc[r] = "status"
    /\ \E auth \in AuthResults, get \in GetResults :
        LET res == checkStatusInstances(auth, get)
            ep == endpoint[r]
        IN  /\ calls' = [calls EXCEPT ![r] = @ \o res.calls]
            /\ IF res.panic
               THEN /\ pc' = [pc EXCEPT ![r] = "panicked"]
                    /\ UNCHANGED <<responses, status>>
               ELSE IF res.err # NilValue
               THEN /\ Respond(r, writeErrorResponse(500, "Instances not found.",
                                                     StringValue(ErrorText(res.err))))
                    /\ UNCHANGED status
               ELSE IF ep = "/check"
               THEN /\ Respond(r, writeSuccessResponse(200,
                                      "Successfully fetch instances detail.", res.data))
                    /\ status' = [status EXCEPT ![r] = res.data]
               ELSE IF ep = "/stop"
               THEN /\ status' = [status EXCEPT ![r] = res.data]
                    /\ IF StopRejectsState(res.data.State)
                       THEN Respond(r, writeErrorResponse(400, StateMessage(res.data.State),
                                                          StringValue("")))
                       ELSE Proceed(r, "payload")
               ELSE /\ UNCHANGED status
                    /\ IF StartRejectsState(res.data.State)
                       THEN Respond(r, writeErrorResponse(400, StateMessage(res.data.State),
                                                          StringValue("")))
                       ELSE Proceed(r, "payload")
    /\ UNCHANGED <<endpoint, method, body, activationPolicy, provVars, fmtVars>>

(* io.ReadAll, json.Unmarshal and the check of ActivationPolicy. *)
ReadPayload(r) ==
    /\ pc[r] = "payload"
    /\ \E b \in Bodies :
        /\ body' = [body EXCEPT ![r] = b]
        /\ IF b.kind = "readerr"
           THEN /\ Respond(r, writeErrorResponse(400, "Failed to read request body.",
                                                 PlainError("unexpected EOF")))
                /\ UNCHANGED activationPolicy
           ELSE IF b.kind = "notjson"
           THEN /\ Respond(r, writeErrorResponse(400, "Invalid JSON format.",
                              PlainError("invalid character 'x' looking for beginning of value")))
                /\ UNCHANGED activationPolicy
           ELSE IF ~PolicyAccepted(b.payload)
           THEN /\ Respond(r, writeErrorResponse(400, InvalidPolicyMessage, StringValue("")))
                /\ activationPolicy' =
                       [activationPolicy EXCEPT ![r] = PolicyAssertion(b.payload).value]
           ELSE /\ Proceed(r, "patch")
                /\ activationPolicy' =
                       [activationPolicy EXCEPT ![r] = PolicyAssertion(b.payload).value]
    /\ UNCHANGED <<endpoint, method, status, calls, provVars, fmtVars>>

(* sqlService.Instances.Patch(...).Do() and the response that follows.  A   *)
(* patch the provider accepts sets the instance's activation policy.        *)
Patch(r) ==
    /\ pc[r] = "patch"
    /\ \E err \in CallErrors :
        LET sent == PatchPolicy(endpoint[r], activationPolicy[r])
        IN  /\ calls' = [calls EXCEPT ![r] = Append(@, Call("Patch", sent, err))]
            /\ IF err # NilValue
               THEN /\ Respond(r, writeErrorResponse(500, PatchFailedMessage(endpoint[r]), err))
                    /\ UNCHANGED instPolicy
               ELSE /\ Respond(r, writeSuccessResponse(200, PatchSucceededMessage(endpoint[r]),
                                                       PatchOperation(sent)))
                    /\ instPolicy' = sent
    /\ UNCHANGED <<endpoint, method, status, body, activationPolicy, instState, fmtVars>>

(* The provider brings the instance to the state its activation policy asks *)
(* for: NEVER stops a running instance, ALWAYS starts a stopped one.        *)
ProviderApply ==
    /\ \/ instPolicy = "NEVER" /\ instState = "RUNNABLE" /\ instState' = "STOPPED"
       \/ instPolicy = "ALWAYS" /\ instState = "STOPPED" /\ instState' = "RUNNABLE"
    /\ UNCHANGED <<instPolicy, reqVars, fmtVars>>

-----------------------------------------------------------------------------
NoResponse == [envelope |-> "none", status_code |-> 0, status_text |-> "", message |-> "",
               error_type |-> "", error_description |-> "", data |-> NoData]

RequestsInit ==
    /\ pc = [r \in Requests |-> "idle"]
    /\ endpoint = [r \in Requests |-> ""]
    /\ method = [r \in Requests |-> ""]
    /\ status = [r \in Requests |-> NoStatus]
    /\ body = [r \in Requests |-> NotRead]
    /\ activationPolicy = [r \in Requests |-> ""]
    /\ calls = [r \in Requests |-> <<>>]
    /\ responses = [r \in Requests |-> <<>>]

Init ==
    /\ instState \in InstanceStates
    /\ instPolicy = IF instState = "STOPPED" THEN "NEVER" ELSE "ALWAYS"
    /\ RequestsInit
    /\ fmtCause = NilValue
    /\ fmtCode = 0
    /\ fmtMessage = ""
    /\ fmtOut = NoResponse

Next ==
    \/ \E r \in Requests : Receive(r)
    \/ \E r \in Requests : Authenticate(r)
    \/ \E r \in Requests : ReadStatus(r)
    \/ \E r \in Requests : ReadPayload(r)
    \/ \E r \in Requests : Patch(r)
    \/ ProviderApply

Spec == Init /\ [][Next]_vars

-----------------------------------------------------------------------------
(* writeErrorResponse on its own: the arguments are drawn from sets that    *)
(* cover every branch of its type switch, also those no handler reaches.    *)

FmtCodes == {7, 42, 403, 404, 500, 1001}

FmtCauses ==
    {NilValue, IntValue(12), IntValue(-3), StringValue(""), StringValue("boom"),
     CredentialsError, TransportError,
     Errorf("failed to get instance details, instances not found.",
            GoogleapiError(404, ProviderMessage(404)))}
        \cup {GoogleapiError(c, ProviderMessage(c)) : c \in FmtCodes}

FmtStatusCodes == {400, 401, 405, 500}
FmtMessages == {"Method not allowed.", "Failed to start instance."}

FmtInit ==
    /\ instState = "RUNNABLE"
    /\ instPolicy = "ALWAYS"
    /\ RequestsInit
    /\ fmtCause \in FmtCauses
    /\ fmtCode \in FmtStatusCodes
    /\ fmtMessage \in FmtMessages
    /\ fmtOut = NoResponse

FormatError ==
    /\ fmtOut = NoResponse
    /\ fmtOut' = writeErrorResponse(fmtCode, fmtMessage, fmtCause)
    /\ UNCHANGED <<fmtCause, fmtCode, fmtMessage, reqVars, provVars>>

FmtNext == FormatError

SpecFmt == FmtInit /\ [][FmtNext]_vars

-----------------------------------------------------------------------------
(* Vocabulary of the properties. *)

Returned(r) == pc[r] = "done"
Exited(r) == pc[r] \in {"done", "panicked"}
OneResponse(r) == Len(responses[r]) = 1
Response(r) == responses[r][1]
Answered(r, code) == Returned(r) /\ OneResponse(r) /\ Response(r).status_code = code

CallsOf(r, op) == {i \in DOMAIN calls[r] : calls[r][i].op = op}
Patched(r) == CallsOf(r, "Patch") # {}
PatchCall(r) == calls[r][CHOOSE i \in CallsOf(r, "Patch") : TRUE]

Mutation(r) == endpoint[r] \in {"/start", "/stop"}
PostMutation(r) == Mutation(r) /\ method[r] = "POST"

(* The handler's own authentication is the first call a request makes. *)
HandlerAuthFailed(r) ==
    Len(calls[r]) >= 1 /\ calls[r][1].op = "NewService" /\ calls[r][1].err # NilValue

(* checkStatusInstances returned a snapshot to the handler. *)
StatusFetched(r) ==
    /\ pc[r] # "panicked"
    /\ \E i \in CallsOf(r, "Get") : calls[r][i].err = NilValue

(* The body, as read, is a JSON object whose ActivationPolicy is exactly   *)
(* the string "ALWAYS" or the string "NEVER".                               *)
CarriesValidPolicy(b) ==
    /\ b.kind = "object"
    /\ "ActivationPolicy" \in DOMAIN b.payload
    /\ b.payload["ActivationPolicy"].t = "string"
    /\ b.payload["ActivationPolicy"].s \in {"ALWAYS", "NEVER"}

-----------------------------------------------------------------------------
(* C1 as stated: every POST to /start or /stop whose body does not carry a *)
(* valid ActivationPolicy is answered 400 and issues no patch call.  It     *)
(* fails: a handler that answers 401 or 500 before it reads the body does   *)
(* so whatever the body is.                                                 *)
C1_InvalidPolicyAlways400 ==
    \A r \in Requests :
        (Returned(r) /\ PostMutation(r) /\ ~CarriesValidPolicy(body[r]))
            => (Answered(r, 400) /\ ~Patched(r))

(* C1 as amended: a POST to /start or /stop whose body does not carry a     *)
(* valid ActivationPolicy never issues the patch call, and it is answered   *)
(* 400 whenever the handler's authentication and status read succeeded.     *)
C1_InvalidPolicyNeverPatches ==
    \A r \in Requests :
        (PostMutation(r) /\ ~CarriesValidPolicy(body[r]))
            => /\ ~Patched(r)
               /\ pc[r] # "patch"
               /\ (Returned(r) /\ StatusFetched(r)) => Answered(r, 400)

C1_Witness ==
    \E r \in Requests :
        /\ PostMutation(r)
        /\ body[r] = JsonBody([k \in {"ActivationPolicy"} |-> JsonString("always")])
        /\ Answered(r, 400)
        /\ Response(r).message = InvalidPolicyMessage
        /\ ~Patched(r)

(* C2: a request to /start or /stop whose method is not POST, and a request *)
(* to /check whose method is not GET, is answered 405 and makes no provider *)
(* call: no authentication, no status read, no patch.                       *)
C2_WrongMethod405NoCalls ==
    \A r \in Requests :
        (pc[r] # "idle" /\ (\/ Mutation(r) /\ method[r] # "POST"
                            \/ endpoint[r] = "/check" /\ method[r] # "GET"))
            => (Answered(r, 405) /\ calls[r] = <<>>)

C2_Witness ==
    \E r, q \in Requests :
        /\ endpoint[r] = "/check" /\ method[r] = "POST" /\ Answered(r, 405)
        /\ endpoint[q] = "/stop" /\ method[q] = "GET" /\ Answered(q, 405)

(* C3: when the state S that /stop fetched is not RUNNABLE, the request is  *)
(* answered 400 with message "Instance currently in S state.", the handler  *)
(* has not read the body (so the answer is the same for every body), and no *)
(* patch call is issued.                                                    *)
C3_StopRejectsNonRunnable ==
    \A r \in Requests :
        (endpoint[r] = "/stop" /\ StatusFetched(r) /\ status[r].State # "RUNNABLE")
            => /\ Answered(r, 400)
               /\ Response(r).message
                      = "Instance currently in " \o status[r].State \o " state."
               /\ body[r] = NotRead
               /\ ~Patched(r)

C3_Witness ==
    \E r \in Requests :
        /\ endpoint[r] = "/stop"
        /\ status[r].State = "MAINTENANCE"
        /\ Answered(r, 400)
        /\ Response(r).message = "Instance currently in MAINTENANCE state."

(* C4: when the handler's authentication with the provider fails, the      *)
(* request (to any of the three endpoints) is answered 401 and makes no     *)
(* further provider call: no status read and no patch.                      *)
C4_AuthFailure401NoCalls ==
    \A r \in Requests :
        HandlerAuthFailed(r)
            => (Answered(r, 401) /\ Len(calls[r]) = 1)

C4_Witness ==
    \E r, q \in Requests :
        /\ endpoint[r] = "/stop" /\ HandlerAuthFailed(r) /\ Answered(r, 401)
        /\ endpoint[q] = "/check" /\ HandlerAuthFailed(q) /\ Answered(q, 401)

(* C5: writeErrorResponse classifies its cause by four cases: a provider   *)
(* error with code C gives "googleapi_C" and the provider's message; any    *)
(* other error gives "internal_error" and the error's message; a string     *)
(* gives "internal_error" and the string; every other value gives           *)
(* "unknown_error" and a rendering of the value.                            *)
C5_DecimalOf == [c \in FmtCodes |->
                    CASE c = 7 -> "7" [] c = 42 -> "42" [] c = 403 -> "403"
                      [] c = 404 -> "404" [] c = 500 -> "500" [] c = 1001 -> "1001"]

C5_FourWayClassification ==
    fmtOut # NoResponse =>
        /\ fmtOut.status_code = fmtCode
        /\ fmtOut.message = fmtMessage
        /\ fmtCause.kind = "googleapi" =>
              /\ fmtOut.error_type = "googleapi_" \o C5_DecimalOf[fmtCause.Code]
              /\ fmtOut.error_description = fmtCause.Message
        /\ fmtCause.kind = "error" =>
              /\ fmtOut.error_type = "internal_error"
              /\ fmtOut.error_description = fmtCause.Message
        /\ fmtCause.kind = "string" =>
              /\ fmtOut.error_type = "internal_error"
              /\ fmtOut.error_description = fmtCause.Message
        /\ fmtCause.kind = "nil" =>
              /\ fmtOut.error_type = "unknown_error"
              /\ fmtOut.error_description = "<nil>"
        /\ fmtCause = IntValue(12) =>
              /\ fmtOut.error_type = "unknown_error"
              /\ fmtOut.error_description = "12"
        /\ fmtCause = IntValue(-3) =>
              /\ fmtOut.error_type = "unknown_error"
              /\ fmtOut.error_description = "-3"

C5_Witness ==
    /\ fmtCause = StringValue("boom")
    /\ fmtOut.envelope = "error"
    /\ fmtOut.error_type = "internal_error"
    /\ fmtOut.error_description = "boom"

(* C6: a POST to /start whose status read succeeded, whatever state it      *)
(* fetched, goes on to read the body; with a valid ActivationPolicy it      *)
(* issues the patch call, and when the patch succeeds it is answered 200    *)
(* with the provider's patch response as data.                              *)
C6_StartIgnoresState ==
    \A r \in Requests :
        (endpoint[r] = "/start" /\ StatusFetched(r))
            => /\ pc[r] = "payload" \/ body[r] # NotRead
               /\ CarriesValidPolicy(body[r]) =>
                     /\ pc[r] = "patch" \/ Patched(r)
                     /\ (Patched(r) /\ PatchCall(r).err = NilValue) =>
                           /\ Answered(r, 200)
                           /\ Response(r).envelope = "success"
                           /\ Response(r).data =
                                  [Kind |-> "sql#operation", OperationType |-> "UPDATE",
                                   Status |-> "PENDING", TargetId |-> "db-main"]

C6_Witness ==
    /\ instState = "FAILED"
    /\ \E r \in Requests :
          /\ endpoint[r] = "/start"
          /\ StatusFetched(r)
          /\ Patched(r)
          /\ Answered(r, 200)

(* C7 as stated: an error response whose cause is the provider rejecting a *)
(* call (status read or patch) with a status code C has error_type         *)
(* "googleapi_C", and one whose cause is local validation has not.  It      *)
(* fails for the status read: the handlers pass err.Error(), a string.      *)
C7_IsProviderType(t) == \E c \in ProviderCodes : t = "googleapi_" \o FormatInt(c)

C7_ProviderRejectionsTyped ==
    \A r \in Requests :
        (Returned(r) /\ OneResponse(r) /\ Response(r).envelope = "error")
            => LET last == IF calls[r] = <<>> THEN Call("", "", NilValue)
                           ELSE calls[r][Len(calls[r])]
               IN  /\ last.err.kind = "googleapi" =>
                          Response(r).error_type = "googleapi_" \o FormatInt(last.err.Code)
                   /\ last.err = NilValue => ~C7_IsProviderType(Response(r).error_type)

(* C8 as stated: a handler that has exited has written exactly one         *)
(* envelope.  It fails when Instances.Get returns an instance without       *)
(* settings: checkStatusInstances panics and nothing is written.            *)
C8_ExactlyOneEnvelope ==
    \A r \in Requests : Exited(r) => OneResponse(r)

(* C9 as stated: whenever a /stop request issues its patch call, the        *)
(* instance's state at the provider is RUNNABLE at that moment.             *)
C9_StopPatchesOnlyRunning ==
    [][\A r \in Requests :
          (endpoint[r] = "/stop" /\ pc[r] = "patch" /\ pc'[r] = "done")
              => instState = "RUNNABLE"]_vars

(* C9 as amended: whenever a /stop request issues its patch call, the state *)
(* that this request itself fetched at its status read was RUNNABLE; the    *)
(* state at the provider may have changed since.                            *)
C9_StopPatchesAfterRunnableRead ==
    \A r \in Requests :
        (endpoint[r] = "/stop" /\ (pc[r] = "patch" \/ Patched(r)))
            => (StatusFetched(r) /\ status[r].State = "RUNNABLE")

C9_Witness ==
    \E r \in Requests :
        /\ endpoint[r] = "/stop"
        /\ pc[r] = "patch"
        /\ status[r].State = "RUNNABLE"
        /\ instState = "STOPPED"

(* C10: on /start and on /stop alike, the activation policy the patch call *)
(* carries is the ActivationPolicy string of the request body, and a patch  *)
(* that succeeds is answered 200.                                           *)
C10_PatchCarriesBodyPolicy ==
    \A r \in Requests :
        Patched(r)
            => /\ Mutation(r)
               /\ CarriesValidPolicy(body[r])
               /\ PatchCall(r).policy = body[r].payload["ActivationPolicy"].s
               /\ PatchCall(r).err = NilValue => Answered(r, 200)

C10_Witness ==
    \E r, q \in Requests :
        /\ endpoint[r] = "/stop" /\ Patched(r) /\ PatchCall(r).policy = "ALWAYS"
        /\ body[r].payload["ActivationPolicy"].s = "ALWAYS" /\ Answered(r, 200)
        /\ endpoint[q] = "/start" /\ Patched(q) /\ PatchCall(q).policy = "NEVER"
        /\ body[q].payload["ActivationPolicy"].s = "NEVER" /\ Answered(q, 200)

====
